---- MODULE Spec2Model ----
(***************************************************************************)
(* A model of the sharepoint client library:                               *)
(*   - APIclient (api.py): get/post with form-digest renewal,              *)
(*   - SPObject.attribute / LazyAttribute.value (SPObjects.py),            *)
(*   - SPFolder.walk, SPFolder.upload_file and SPFolder._stream_upload.    *)
(*                                                                         *)
(* Eight specifications share the module:                                  *)
(*   Spec      one APIclient, its callers get()/post() and upload_file();  *)
(*   SpecLive  Spec with the chunk loop of _stream_upload running on;      *)
(*   SpecShared two APIclients on one session (get_new_site);              *)
(*   SpecAttr  one SPObject and its attribute mapping;                     *)
(*   SpecWalk  a folder tree and SPFolder.walk over it;                    *)
(*   SpecType  _json_to_object applied to one envelope;                    *)
(*   SpecLazy  one LazyAttribute instance and its value() calls;           *)
(*   SpecStr   _stringify applied to one argument.                         *)
(***************************************************************************)
EXTENDS Integers, Sequences, FiniteSets, TLC

\* ------------------------------------------------------------------ bounds
\* The clock runs from 0 (construction of the APIclient) to MaxTime.
MaxTime == 2
\* FormDigestTimeoutSeconds answered by the server: 1..MaxTimeout.
MaxTimeout == 2
\* Local files have 1..MaxSize bytes.
MaxSize == 6
\* chunk_size of upload_file, scaled down from 1024*1024 bytes.
chunk_size == 2

VARIABLES
    \* ---- APIclient and its transport session (api.py)
    now,          \* datetime.now()
    expire,       \* APIclient.expire
    hdr,          \* session.headers['X-RequestDigest']: expiry of the token held
    net,          \* requests sent by the current top-level call, in order
    ncall,        \* number of http() calls made by the current top-level call
    \* ---- SPFolder.upload_file / _stream_upload (SPObjects.py)
    pc,           \* position inside upload_file
    filename,     \* the local path given to upload_file, as its components
    file_size,    \* os.path.getsize(filename)
    first_chunk,
    offset,
    fpos,         \* read position of the file object f
    fopen,        \* f is open
    relCached,    \* 'ServerRelativeUrl' in folder._attributes
    checkOut,     \* file.attribute('CheckOutType')
    chunkFailed,  \* an exception was raised inside the chunk loop
    reported,     \* "Uploaded ..." was printed
    result,       \* how the last top-level call ended
    \* ---- one SPObject and its attribute mapping (SPObjects.py)
    envelope,     \* the json the node was constructed from, if any
    attrs,        \* SPObject._attributes: a function on the names present
    gets,         \* GETs sent to <node-uri>/<name>, per name
    okGets,       \* those of them that were answered with success
    last,         \* the last attribute() call: what it found and did
    \* ---- a folder tree and SPFolder.walk over it (SPObjects.py)
    nnodes,       \* folders 0..nnodes-1 exist on the server, 0 is the start root
    parent,       \* parent[i] is the folder holding folder i (i >= 1)
    fattrs,       \* fattrs[i]: _attributes of the SPFolder object of folder i
    walked,       \* the last walk(): its arguments, what it yielded and visited
    \* ---- _json_to_object applied to one envelope (SPObjects.py)
    type_tag,     \* json['__metadata']['type'], a sequence of tokens
    sp_object,    \* what _json_to_object returned or raised, "pending" before
    \* ---- one LazyAttribute instance (SPObjects.py)
    lazy_given,   \* a value was supplied to the constructor
    lazy_value,   \* LazyAttribute._value
    lazy_calls,   \* value() calls made on the instance
    lazy_gets,    \* GETs those calls sent
    lazy_failed,  \* one of those GETs was answered with an error status
    \* ---- _stringify applied to one argument (SPObjects.py)
    obj,          \* the argument: its type, its characters or its number
    rendered,     \* what _stringify returned or raised, Pending before
    \* ---- a second APIclient on the same session (get_new_site)
    expire2,      \* APIclient.expire of the second client, NoClient before
    shared_last   \* the last POST sent by post() on either client

clientVars == <<now, expire, hdr, net, ncall>>
uploadVars == <<pc, filename, file_size, first_chunk, offset, fpos, fopen, relCached,
                checkOut, chunkFailed, reported, result>>
attrVars == <<envelope, attrs, gets, okGets, last>>
walkVars == <<nnodes, parent, fattrs, walked>>
typeVars == <<type_tag, sp_object>>
lazyVars == <<lazy_given, lazy_value, lazy_calls, lazy_gets, lazy_failed>>
strVars == <<obj, rendered>>
sharedVars == <<expire2, shared_last>>
fnVars == <<typeVars, lazyVars, strVars, sharedVars>>
vars == <<now, expire, hdr, net, ncall, pc, filename, file_size, first_chunk, offset,
          fpos, fopen, relCached, checkOut, chunkFailed, reported, result,
          envelope, attrs, gets, okGets, last, nnodes, parent, fattrs, walked,
          type_tag, sp_object,
          lazy_given, lazy_value, lazy_calls, lazy_gets, lazy_failed,
          obj, rendered, expire2, shared_last>>

\* ------------------------------------------------------------- APIclient
\* No X-RequestDigest header has been set on the session yet.
NoToken == -1

Timeouts == 1..MaxTimeout

Min(a, b) == IF a <= b THEN a ELSE b

\* Mutant: the first expiry lies in the future instead of being now.
InitExpireLater(t) == t + 1

\* APIclient.__init__: self.expire = datetime.now()
InitExpire(t) == t

\* Mutant: a token expiring exactly now still counts as valid.
DigestExpiredStrict(exp, t) == exp < t

\* APIclient._digest: if self.expire <= datetime.now()
DigestExpired(exp, t) == exp <= t

\* APIclient._digest: self.expire = datetime.now() + timedelta(seconds=...)
RenewedExpire(t, timeout) == t + timeout

\* One request as the transport session sends it.
\*   verb   GET or POST
\*   op     the endpoint or method called
\*   call   index of the http() call that sent it (0 for none)
\*   viaPost the request is the POST of a post() call (not a renewal)
\*   off, len  fileOffset argument and number of body bytes
\*   ok     the response status was a success
\*   fresh  the session header held a token unexpired at the time of sending,
\*          and the client's recorded expiry was that token's expiry
\*   due    now >= expire held when the http() call was made
Request(verb, op, call, viaPost, off, len, ok, fresh, due) ==
    [verb |-> verb, op |-> op, call |-> call, viaPost |-> viaPost,
     off |-> off, len |-> len, ok |-> ok, fresh |-> fresh, due |-> due]

\* The session header holds a token that is unexpired at time t, and the
\* client's recorded expiry is that token's expiry.
TokenFresh(h, exp, t) == h # NoToken /\ h > t /\ exp = h

\* Mutant: header and expiry are stored before the response is checked.
DigestStoresUnchecked(exp, h, t, call, timeout, renewOk) ==
    IF DigestExpired(exp, t)
    THEN [expire |-> RenewedExpire(t, timeout),
          hdr |-> RenewedExpire(t, timeout),
          sent |-> <<Request("POST", "contextinfo", call, FALSE, 0, 0,
                             renewOk, TokenFresh(h, exp, t), exp <= t)>>,
          raised |-> ~renewOk]
    ELSE [expire |-> exp, hdr |-> h, sent |-> <<>>, raised |-> FALSE]

\* APIclient._digest, as called by http() number `call` at time t.
\* Returns the client state after it, the requests it sent and whether
\* _check_response raised.
Digest(exp, h, t, call, timeout, renewOk) ==
    IF DigestExpired(exp, t)
    THEN LET req == Request("POST", "contextinfo", call, FALSE, 0, 0,
                            renewOk, TokenFresh(h, exp, t), exp <= t)
         IN  IF renewOk
             THEN [expire |-> RenewedExpire(t, timeout),
                   hdr |-> RenewedExpire(t, timeout),
                   sent |-> <<req>>, raised |-> FALSE]
             ELSE [expire |-> exp, hdr |-> h, sent |-> <<req>>, raised |-> TRUE]
    ELSE [expire |-> exp, hdr |-> h, sent |-> <<>>, raised |-> FALSE]

\* APIclient.http(url, 'POST', payload): _digest(), then the POST, then
\* _check_response.
HttpPost(exp, h, t, call, op, off, len, timeout, renewOk, postOk) ==
    LET d == Digest(exp, h, t, call, timeout, renewOk)
    IN  IF d.raised
        THEN d
        ELSE [expire |-> d.expire, hdr |-> d.hdr,
              sent |-> Append(d.sent,
                         Request("POST", op, call, TRUE, off, len, postOk,
                                 TokenFresh(d.hdr, d.expire, t), exp <= t)),
              raised |-> ~postOk]

\* APIclient.http(url, 'GET', params): no digest is needed.
HttpGet(exp, h, t, call, op, getOk) ==
    [expire |-> exp, hdr |-> h,
     sent |-> <<Request("GET", op, call, FALSE, 0, 0, getOk,
                        TokenFresh(h, exp, t), exp <= t)>>,
     raised |-> ~getOk]

\* --------------------------------------------------------------- upload
CheckOutTypes == {0, 2}

\* Mutant: the finish test is offset > file_size - chunk_size.
ChunkOpStrict(first, off, size, chunk) ==
    IF first THEN "startupload"
    ELSE IF off > size - chunk THEN "finishupload"
    ELSE "continueupload"

\* _stream_upload: the branch taken for the chunk just read.
ChunkOp(first, off, size, chunk) ==
    IF first THEN "startupload"
    ELSE IF off >= size - chunk THEN "finishupload"
    ELSE "continueupload"

\* Mutant: offset = len(data) instead of offset += len(data).
NextOffsetAssign(off, datalen) == datalen

\* _stream_upload: offset += len(data)
NextOffset(off, datalen) == off + datalen

\* Mutant: f.read always returns chunk_size bytes.
ReadLenFull(size, pos, chunk) == chunk

\* f.read(chunk_size) on a file of `size` bytes read up to `pos`.
ReadLen(size, pos, chunk) == Min(chunk, size - pos)

\* Mutant: a file of exactly chunk_size bytes is streamed too.
StreamsFromEqual(size, chunk) == size >= chunk

\* upload_file: stream = file_size > chunk_size
Streams(size, chunk) == ~(size <= chunk)

\* Mutant: the failure of the create POST is not noticed.
AfterCreateIgnoring(raised, stream) == IF stream THEN "open" ELSE "report"

\* upload_file, lines 331-336: where control goes after the try block; the
\* bare except returns, otherwise _stream_upload runs if stream is set.
AfterCreate(raised, stream) ==
    IF raised THEN "idle" ELSE IF stream THEN "open" ELSE "report"

ChunkOps == {"startupload", "continueupload", "finishupload"}

\* Paths are sequences of components.  upload_file is given a bare file
\* name or a name below a local directory.
Filenames == {<<"big.bin">>, <<"data", "big.bin">>}

\* self.attribute('ServerRelativeUrl') of the folder uploaded to.
ServerRelativeUrl == <<"sites", "docs">>

\* upload_file: file_base = os.path.split(filename)[1]
FileBase(name) == <<name[Len(name)]>>

\* upload_file: Files/add(url=file_base) creates the file at this
\* server-relative path.
CreatedPath(name) == ServerRelativeUrl \o FileBase(name)

\* _stream_upload: GetFileByServerRelativeUrl(relative_path + '/' + filename),
\* the object every chunk call and the cancel call is posted to.
StreamPath(name) == ServerRelativeUrl \o name

ClientInit ==
    /\ now = 0
    /\ expire = InitExpire(0)
    /\ hdr = NoToken
    /\ net = <<>>
    /\ ncall = 0
    /\ pc = "idle"
    /\ filename = <<>>
    /\ file_size = 0
    /\ first_chunk = TRUE
    /\ offset = 0
    /\ fpos = 0
    /\ fopen = FALSE
    /\ checkOut = 2
    /\ chunkFailed = FALSE
    /\ reported = FALSE
    /\ result = "none"

\* ------------------------------------------------------- _json_to_object
\* Type tags have at most MaxTagLen tokens.
MaxTagLen == 3

\* Type tags are written as sequences of tokens; "." is the separator the
\* server puts between namespace and type name.  No token is a prefix of
\* another, so two dot-free token sequences spell the same string exactly
\* when they are equal.
Tokens == {".", "SP", "Folder", "File", "Site", "Web", "Object", "os", "logger",
           "LazyPost"}

TypeTags == UNION {[1..n -> Tokens] : n \in 0..MaxTagLen}

\* json['__metadata']['type'].replace(".", "")
StripDots(tag) == SelectSeq(tag, LAMBDA t : t # ".")

\* globals() of SPObjects.py, restricted to the names Tokens can spell:
\* the classes SPObject, SPFolder, SPFile, SPSite and LazyPost, the module os
\* and the Logger instance logger.  "KeyError" stands for a missing key.
GlobalsLookup(name) ==
    CASE name = <<"SP", "Object">> -> "SPObject"
      [] name = <<"SP", "Folder">> -> "SPFolder"
      [] name = <<"SP", "File">> -> "SPFile"
      [] name = <<"SP", "Site">> -> "SPSite"
      [] name = <<"LazyPost">> -> "LazyPost"
      [] name = <<"os">> -> "module os"
      [] name = <<"logger">> -> "Logger"
      [] OTHER -> "KeyError"

\* The globals that are classes taking (url, api_client, json): calling one
\* returns an instance of it; calling a module or a Logger raises TypeError.
Classes == {"SPObject", "SPFolder", "SPFile", "SPSite", "LazyPost"}

\* _json_to_object: the class of the object returned, or the error raised.
JsonToObject(tag) ==
    LET sp_type == StripDots(tag)
        found == GlobalsLookup(sp_type)
        sp_class == IF found = "KeyError" THEN "SPObject" ELSE found
    IN  IF sp_class \in Classes THEN sp_class ELSE "TypeError"

TypeIdle ==
    /\ type_tag = <<>>
    /\ sp_object = "pending"

\* ------------------------------------------------------------ _stringify
\* String and bytes arguments have at most MaxStrLen characters.
MaxStrLen == 3
\* Integer arguments are 0..MaxInt.
MaxInt == 12

\* The characters arguments are made of.
Chars == {"a", "%", "'"}

Strings == UNION {[1..n -> Chars] : n \in 0..MaxStrLen}

\* A Python object passed as a call argument: its type, its characters
\* (str, bytes) or its number (int, bool, UUID: which of two UUIDs).
PyObj(type, chars, num) == [type |-> type, chars |-> chars, num |-> num]

Objects ==
    {PyObj("str", cs, 0) : cs \in Strings}
    \cup {PyObj("bytes", cs, 0) : cs \in {<<>>, <<"a">>}}
    \cup {PyObj("UUID", <<>>, n) : n \in 1..2}
    \cup {PyObj("int", <<>>, n) : n \in 0..MaxInt}
    \cup {PyObj("bool", <<>>, n) : n \in 0..1}
    \cup {PyObj("NoneType", <<>>, 0)}

Digit(d) == <<"0", "1", "2", "3", "4", "5", "6", "7", "8", "9">>[d + 1]

RECURSIVE Decimal(_)
\* str(n) of a non-negative int
Decimal(n) == IF n < 10 THEN <<Digit(n)>> ELSE Append(Decimal(n \div 10), Digit(n % 10))

\* str(obj) of an object that is neither str nor bytes; the canonical form
\* of a UUID is shortened to five characters.
Str(o) ==
    CASE o.type = "int" -> Decimal(o.num)
      [] o.type = "bool" -> IF o.num = 1 THEN <<"T", "r", "u", "e">>
                            ELSE <<"F", "a", "l", "s", "e">>
      [] o.type = "NoneType" -> <<"N", "o", "n", "e">>
      [] o.type = "UUID" -> <<"0", "0", "-", "0", Digit(o.num)>>

RECURSIVE Replace(_)
\* s.replace("'", "%27%27")
Replace(s) ==
    IF s = <<>> THEN <<>>
    ELSE (IF Head(s) = "'" THEN <<"%", "2", "7", "%", "2", "7">>
          ELSE <<Head(s)>>) \o Replace(Tail(s))

\* The types whose objects have an attribute `replace`.
HasReplace(o) == o.type \in {"str", "bytes"}

Returned(text) == [raised |-> "", text |-> text]
Raised(exc) == [raised |-> exc, text |-> <<>>]
Pending == [raised |-> "pending", text |-> <<>>]

\* _stringify: obj.replace("'", "%27%27") is tried first; only AttributeError
\* is caught.  bytes.replace given two str arguments raises TypeError.
Stringify(o) ==
    IF HasReplace(o)
    THEN IF o.type = "str"
         THEN Returned(<<"'">> \o Replace(o.chars) \o <<"'">>)
         ELSE Raised("TypeError")
    ELSE IF o.type = "UUID"
         THEN Returned(<<"g", "u", "i", "d", "'">> \o Str(o) \o <<"'">>)
         ELSE Returned(Str(o))

StrIdle ==
    /\ obj = PyObj("NoneType", <<>>, 0)
    /\ rendered = Pending

\* --------------------------------------------------------- SPFolder.walk
WalkIdle ==
    /\ nnodes = 1
    /\ parent = <<>>
    /\ fattrs = <<>>
    /\ walked = <<>>

\* ------------------------------------------- SPObject and LazyAttribute
\* Bound on the GETs sent for one attribute name.
MaxFetch == 3

\* Attribute names read on the node.
Names == {"Title", "Folders"}

\* JSON null as the value of a field.
Null == -1

\* Python values an attribute can hold: None, a scalar, a list of dispatched
\* objects (items: their ids), one dispatched object (sv: its id).
None == [kind |-> "none", sv |-> 0, items |-> <<>>]
Scalar(v) == [kind |-> "scalar", sv |-> v, items |-> <<>>]
List(xs) == [kind |-> "list", sv |-> 0, items |-> xs]
Object(id) == [kind |-> "object", sv |-> id, items |-> <<>>]

\* Python truth value of an attribute value: None, 0 and [] are falsy.
Falsy(v) ==
    \/ v.kind = "none"
    \/ v.kind = "scalar" /\ v.sv = 0
    \/ v.kind = "list" /\ v.items = <<>>

\* The payloads r.json()['d'] the server answers to GET <node-uri>/<name>:
\* an empty payload, a payload holding the field <name>, a collection
\* ("results"), an entity.
Payloads ==
    {[kind |-> "empty", sv |-> 0, items |-> <<>>]}
    \cup {[kind |-> "field", sv |-> v, items |-> <<>>] : v \in {Null, 0, 1}}
    \cup {[kind |-> "results", sv |-> 0, items |-> xs] : xs \in {<<>>, <<1, 2>>}}
    \cup {[kind |-> "entity", sv |-> 1, items |-> <<>>]}

\* LazyAttribute._parse_json
ParseJson(json) ==
    IF json.kind = "empty" THEN None
    ELSE IF json.kind = "field"
         THEN (IF json.sv = Null THEN None ELSE Scalar(json.sv))
    ELSE IF json.kind = "results" THEN List(json.items)
    ELSE Object(json.sv)

\* LazyAttribute.value on an instance holding `held`: fetch when it is falsy.
LazyFetches(held) == Falsy(held)

\* Mutant: attribute() tests the stored value's truth instead of the key.
IsStoredTruthy(m, name) == name \in DOMAIN m /\ ~Falsy(m[name])

\* SPObject.attribute: name in self._attributes.keys()
IsStored(m, name) == name \in DOMAIN m

\* self._attributes[name] = value
Store(m, name, v) == [n \in DOMAIN m \cup {name} |-> IF n = name THEN v ELSE m[n]]

\* A field of an envelope: "none" (no such field), "deferred" (a dict), or a
\* value that is not a dict: "null", "zero" (0), "value" (1).
FieldKinds == {"none", "deferred", "null", "zero", "value"}

StoredKinds == {"null", "zero", "value"}

\* The Python value of a field that is not a dict.
FieldValue(kind) ==
    IF kind = "null" THEN None ELSE IF kind = "zero" THEN Scalar(0) ELSE Scalar(1)

\* json: no envelope (json=None), or an envelope with these fields.
Bare == [given |-> FALSE, fields |-> [n \in Names |-> "none"]]
Envelope(fields) == [given |-> TRUE, fields |-> fields]

\* Mutant: dict-valued (deferred) fields are stored as well.
FromEnvelopeAll(env) ==
    [n \in {m \in Names : env[m] # "none"} |->
        IF env[n] = "deferred" THEN Object(1) ELSE FieldValue(env[n])]

\* SPObject.__init__: every field of the envelope that is not a dict is
\* stored.
FromEnvelope(env) ==
    [n \in {m \in Names : env[m] \in StoredKinds} |-> FieldValue(env[n])]

\* SPObject.__init__: self._attributes = {}, filled only `if json:`
NewAttributes(json) == IF json.given THEN FromEnvelope(json.fields) ELSE <<>>

\* The URI of the node, and SPObject._attribute_url
NodeUri == "node-uri"
AttributeUrl(uri, name) == <<uri, "/", name>>

AttrIdle ==
    /\ envelope = Bare
    /\ attrs = <<>>
    /\ gets = [n \in Names |-> 0]
    /\ okGets = [n \in Names |-> 0]
    /\ last = [name |-> "", hit |-> FALSE, fetched |-> FALSE, raised |-> FALSE,
               before |-> None, ret |-> None, url |-> <<>>]

\* SPObject.attribute(name), with LazyAttribute(url, client, name).value()
\* inside it; the GET may be answered with an error status, which
\* _check_response raises before anything is stored.
Attribute ==
    /\ \E name \in Names, json \in Payloads, getOk \in BOOLEAN :
         IF IsStored(attrs, name)
         THEN /\ last' = [name |-> name, hit |-> name \in DOMAIN attrs,
                          fetched |-> FALSE, raised |-> FALSE,
                          before |-> attrs[name], ret |-> attrs[name],
                          url |-> <<>>]
              /\ UNCHANGED <<attrs, gets, okGets>>
         ELSE /\ gets[name] < MaxFetch
              /\ LazyFetches(ParseJson([kind |-> "empty", sv |-> 0, items |-> <<>>]))
              /\ gets' = [gets EXCEPT ![name] = @ + 1]
              /\ okGets' = [okGets EXCEPT ![name] = IF getOk THEN @ + 1 ELSE @]
              /\ attrs' = IF getOk THEN Store(attrs, name, ParseJson(json))
                          ELSE attrs
              /\ last' = [name |-> name, hit |-> name \in DOMAIN attrs,
                          fetched |-> TRUE, raised |-> ~getOk,
                          before |-> IF name \in DOMAIN attrs
                                     THEN attrs[name] ELSE None,
                          ret |-> IF getOk THEN ParseJson(json) ELSE None,
                          url |-> AttributeUrl(NodeUri, name)]
    /\ UNCHANGED <<envelope, clientVars, uploadVars, walkVars, fnVars>>

\* ------------------------------------------------- one LazyAttribute
\* Bound on the value() calls made on one LazyAttribute instance.
MaxCalls == 4

\* LazyAttribute.__init__ without a value: self._value = _parse_json(None)
LazyIdle ==
    /\ lazy_given = FALSE
    /\ lazy_value = None
    /\ lazy_calls = 0
    /\ lazy_gets = 0
    /\ lazy_failed = FALSE

\* LazyAttribute.value(): `if not self._value:` GET, parse and keep the
\* result; an error status is raised by _check_response before the
\* assignment.
Value ==
    /\ lazy_calls < MaxCalls
    /\ lazy_calls' = lazy_calls + 1
    /\ \E json \in Payloads, getOk \in BOOLEAN :
         IF LazyFetches(lazy_value)
         THEN /\ lazy_gets' = lazy_gets + 1
              /\ lazy_failed' = (lazy_failed \/ ~getOk)
              /\ lazy_value' = IF getOk THEN ParseJson(json) ELSE lazy_value
         ELSE UNCHANGED <<lazy_gets, lazy_failed, lazy_value>>
    /\ UNCHANGED <<lazy_given, clientVars, uploadVars, attrVars, walkVars,
                   typeVars, strVars, sharedVars>>

\* get_new_site has not been called: there is no second client.
NoClient == -1

SharedIdle ==
    /\ expire2 = NoClient
    /\ shared_last = [client |-> 0, at |-> 0, token |-> NoToken, sent |-> FALSE]

FnIdle == TypeIdle /\ LazyIdle /\ StrIdle /\ SharedIdle

AttrInit ==
    /\ ClientInit
    /\ relCached = FALSE
    /\ WalkIdle
    /\ FnIdle
    /\ gets = [n \in Names |-> 0]
    /\ okGets = [n \in Names |-> 0]
    /\ last = [name |-> "", hit |-> FALSE, fetched |-> FALSE, raised |-> FALSE,
               before |-> None, ret |-> None, url |-> <<>>]
    /\ envelope \in {Bare} \cup {Envelope(f) : f \in [Names -> FieldKinds]}
    /\ attrs = NewAttributes(envelope)

AttrNext == Attribute

SpecAttr == AttrInit /\ [][AttrNext]_vars
Init == ClientInit /\ relCached \in BOOLEAN /\ AttrIdle /\ WalkIdle /\ FnIdle

\* -------------------------------------------------- SPFolder.walk (cont.)
\* Folder trees have 1..MaxNodes folders.
MaxNodes == 4
\* walk is called with maxdepth None, -1 or 0..MaxDepth.
MaxDepth == 3

\* maxdepth=None
NoneDepth == -100

Nodes == 0..(nnodes - 1)

\* The server's Folders collection of folder n, in the server's order.
Children(n) ==
    SelectSeq([i \in 1..(nnodes - 1) |-> i], LAMBDA i : parent[i] = n)

\* The server's Files collection of folder n: file ids.
FilesOf(n) == IF n % 2 = 1 THEN <<n>> ELSE <<>>

\* The payload the server answers to GET <folder-uri>/<name>.
FolderPayload(n, name) ==
    [kind |-> "results", sv |-> 0,
     items |-> IF name = "Folders" THEN Children(n) ELSE FilesOf(n)]

\* Mutant: the attribute is fetched whether it is stored or not.
FolderAttributeAlways(st, n, name) ==
    [st EXCEPT !.nget = @ + 1,
               !.attrs[n] = Store(@, name, ParseJson(FolderPayload(n, name)))]

\* folder.attribute(name) inside a walk whose state is st: served from the
\* object's mapping, or fetched by one GET and stored.
FolderAttribute(st, n, name) ==
    IF IsStored(st.attrs[n], name) THEN st
    ELSE [st EXCEPT !.nget = @ + 1,
                    !.attrs[n] = Store(@, name,
                                       ParseJson(FolderPayload(n, name)))]

\* yield top, folders, files
Yield(st, n) ==
    [st EXCEPT !.out = Append(@, [top |-> n,
                                  folders |-> st.attrs[n]["Folders"].items,
                                  files |-> st.attrs[n]["Files"].items])]

\* Mutant: the recursion test is maxdepth > 0.
DescendsFromOne(maxdepth) ==
    IF maxdepth = NoneDepth THEN TRUE ELSE maxdepth > 0

\* walk: if maxdepth is None or maxdepth > 1
Descends(maxdepth) ==
    IF maxdepth = NoneDepth THEN TRUE ELSE maxdepth > 1

\* walk: newdepth = maxdepth - 1 if maxdepth else None
NewDepth(maxdepth) ==
    IF maxdepth # NoneDepth /\ maxdepth # 0 THEN maxdepth - 1 ELSE NoneDepth

\* Mutant: the triple is yielded before the descent whatever topdown is.
YieldsFirstAlways(topdown) == TRUE

\* walk: if topdown: yield top, folders, files (before the descent)
YieldsFirst(topdown) == topdown

\* walk: if not topdown: yield top, folders, files (after the descent)
YieldsLast(topdown) == ~topdown

RECURSIVE WalkRec(_, _, _, _)
RECURSIVE WalkFolders(_, _, _, _, _)

\* SPFolder.walk(topdown, maxdepth) on folder n, run to exhaustion; every
\* GET it sends is answered with success.
WalkRec(st, n, topdown, maxdepth) ==
    LET s0 == [st EXCEPT !.visited = @ \cup {n}]
        s1 == FolderAttribute(s0, n, "Folders")
        s2 == FolderAttribute(s1, n, "Files")
        s3 == IF YieldsFirst(topdown) THEN Yield(s2, n) ELSE s2
        s4 == IF Descends(maxdepth)
              THEN WalkFolders(s3, s3.attrs[n]["Folders"].items, 1,
                               topdown, maxdepth)
              ELSE s3
    IN  IF YieldsLast(topdown) THEN Yield(s4, n) ELSE s4

\* walk: for folder in folders: for x in folder.walk(topdown, newdepth)
WalkFolders(st, folders, k, topdown, maxdepth) ==
    IF k > Len(folders) THEN st
    ELSE WalkFolders(WalkRec(st, folders[k], topdown, NewDepth(maxdepth)),
                     folders, k + 1, topdown, maxdepth)

\* The SPFolder object of folder n exists: the root, or an item of its
\* parent's stored Folders list.
Known(n) == IF n = 0 THEN TRUE ELSE IsStored(fattrs[parent[n]], "Folders")

NotWalked ==
    [start |-> 0, topdown |-> TRUE, maxdepth |-> NoneDepth, done |-> FALSE,
     out |-> <<>>, visited |-> {}, nget |-> 0]

\* for x in folder.walk(topdown, maxdepth): ... on a known folder object.
Walk ==
    /\ \E start \in Nodes, topdown \in BOOLEAN,
          maxdepth \in {NoneDepth, -1} \cup 0..MaxDepth :
         /\ Known(start)
         /\ LET st == WalkRec([attrs |-> fattrs, out |-> <<>>, visited |-> {},
                               nget |-> 0],
                              start, topdown, maxdepth)
            IN  /\ fattrs' = st.attrs
                /\ walked' = [start |-> start, topdown |-> topdown,
                              maxdepth |-> maxdepth, done |-> TRUE,
                              out |-> st.out, visited |-> st.visited,
                              nget |-> st.nget]
    /\ UNCHANGED <<nnodes, parent>>
    /\ UNCHANGED <<clientVars, uploadVars, attrVars, fnVars>>

WalkInit ==
    /\ ClientInit
    /\ relCached = FALSE
    /\ AttrIdle
    /\ FnIdle
    /\ nnodes \in 1..MaxNodes
    /\ parent \in [1..(nnodes - 1) -> 0..(nnodes - 1)]
    /\ \A i \in 1..(nnodes - 1) : parent[i] < i
    /\ fattrs = [i \in Nodes |-> <<>>]
    /\ walked = NotWalked

WalkNext == Walk

SpecWalk == WalkInit /\ [][WalkNext]_vars

\* ------------------------------------------------ _json_to_object (cont.)
\* _json_to_object(json, api_client) on the envelope whose tag is type_tag.
Dispatch ==
    /\ sp_object = "pending"
    /\ sp_object' = JsonToObject(type_tag)
    /\ UNCHANGED <<type_tag, clientVars, uploadVars, attrVars, walkVars,
                   lazyVars, strVars, sharedVars>>

TypeInit ==
    /\ ClientInit
    /\ relCached = FALSE
    /\ AttrIdle
    /\ WalkIdle
    /\ LazyIdle
    /\ StrIdle
    /\ SharedIdle
    /\ type_tag \in TypeTags
    /\ sp_object = "pending"

TypeNext == Dispatch

SpecType == TypeInit /\ [][TypeNext]_vars

\* ------------------------------------------------------ _stringify (cont.)
\* _stringify(obj)
StringifyArg ==
    /\ rendered = Pending
    /\ rendered' = Stringify(obj)
    /\ UNCHANGED <<obj, clientVars, uploadVars, attrVars, walkVars, typeVars,
                   lazyVars, sharedVars>>

StrInit ==
    /\ ClientInit
    /\ relCached = FALSE
    /\ AttrIdle
    /\ WalkIdle
    /\ TypeIdle
    /\ LazyIdle
    /\ SharedIdle
    /\ obj \in Objects
    /\ rendered = Pending

StrNext == StringifyArg

SpecStr == StrInit /\ [][StrNext]_vars

\* ------------------------------------------ one LazyAttribute (cont.)
\* LazyAttribute(url, api_client, name) or
\* LazyAttribute(url, api_client, name, value): _value = _parse_json(value)
LazyInit ==
    /\ ClientInit
    /\ relCached = FALSE
    /\ AttrIdle
    /\ WalkIdle
    /\ TypeIdle
    /\ StrIdle
    /\ SharedIdle
    /\ lazy_given \in BOOLEAN
    /\ \E json \in Payloads :
         lazy_value = IF lazy_given THEN ParseJson(json) ELSE None
    /\ lazy_calls = 0
    /\ lazy_gets = 0
    /\ lazy_failed = FALSE

LazyNext == Value

SpecLazy == LazyInit /\ [][LazyNext]_vars

\* ------------------------------------- two APIclients on one session
\* Time passes between two requests.
SharedTick ==
    /\ now < MaxTime
    /\ now' = now + 1
    /\ UNCHANGED <<expire, hdr, net, ncall, uploadVars, attrVars, walkVars,
                   typeVars, lazyVars, strVars, sharedVars>>

\* get_new_site(url, old_site): APIclient(url, old_site._api_client.auth);
\* auth is logged in, so the new client takes auth.session, the session of
\* the first client, and sets its own expire to now.
GetNewSite ==
    /\ expire2 = NoClient
    /\ expire2' = InitExpire(now)
    /\ UNCHANGED <<clientVars, uploadVars, attrVars, walkVars, typeVars,
                   lazyVars, strVars, shared_last>>

\* post() on client 1 or on client 2: _digest tests the client's own
\* expire and writes the header of the shared session.
SharedPost ==
    /\ \E k \in 1..2, timeout \in Timeouts, renewOk \in BOOLEAN,
          postOk \in BOOLEAN :
         /\ k = 2 => expire2 # NoClient
         /\ LET r == HttpPost(IF k = 1 THEN expire ELSE expire2, hdr, now, 1,
                              "post", 0, 0, timeout, renewOk, postOk)
                posted == \E i \in 1..Len(r.sent) : r.sent[i].viaPost
            IN  /\ hdr' = r.hdr
                /\ expire' = IF k = 1 THEN r.expire ELSE expire
                /\ expire2' = IF k = 2 THEN r.expire ELSE expire2
                /\ net' = r.sent
                /\ ncall' = 1
                /\ shared_last' = IF posted
                                  THEN [client |-> k, at |-> now,
                                        token |-> r.hdr, sent |-> TRUE]
                                  ELSE shared_last
    /\ UNCHANGED <<now, uploadVars, attrVars, walkVars, typeVars, lazyVars,
                   strVars>>

SharedInit ==
    /\ ClientInit
    /\ relCached = FALSE
    /\ AttrIdle
    /\ WalkIdle
    /\ TypeIdle
    /\ LazyIdle
    /\ StrIdle
    /\ SharedIdle

SharedNext == SharedTick \/ GetNewSite \/ SharedPost

SpecShared == SharedInit /\ [][SharedNext]_vars

\* The locals of upload_file and _stream_upload before they are assigned:
\* a new top-level call starts without those of the previous one.
NoUpload ==
    /\ filename' = <<>>
    /\ file_size' = 0
    /\ first_chunk' = TRUE
    /\ offset' = 0
    /\ fpos' = 0
    /\ fopen' = FALSE
    /\ checkOut' = 2
    /\ chunkFailed' = FALSE
    /\ reported' = FALSE

\* Time passes between two requests.
Tick ==
    /\ UNCHANGED <<attrVars, walkVars, fnVars>>
    /\ now < MaxTime
    /\ now' = now + 1
    /\ UNCHANGED <<expire, hdr, net, ncall>>
    /\ UNCHANGED uploadVars

\* A caller's APIclient.get(url).
Get ==
    /\ UNCHANGED <<attrVars, walkVars, fnVars>>
    /\ pc = "idle"
    /\ \E getOk \in BOOLEAN :
         LET r == HttpGet(expire, hdr, now, 1, "get", getOk)
         IN  /\ net' = r.sent
             /\ ncall' = 1
             /\ result' = IF r.raised THEN "raised" ELSE "returned"
    /\ UNCHANGED <<now, expire, hdr>>
    /\ NoUpload
    /\ UNCHANGED <<pc, relCached>>

\* A caller's APIclient.post(url, data), e.g. LazyPost.send().
Post ==
    /\ UNCHANGED <<attrVars, walkVars, fnVars>>
    /\ pc = "idle"
    /\ \E timeout \in Timeouts, renewOk \in BOOLEAN, postOk \in BOOLEAN :
         LET r == HttpPost(expire, hdr, now, 1, "post", 0, 0,
                           timeout, renewOk, postOk)
         IN  /\ net' = r.sent
             /\ ncall' = 1
             /\ expire' = r.expire
             /\ hdr' = r.hdr
             /\ result' = IF r.raised THEN "raised" ELSE "returned"
    /\ UNCHANGED now
    /\ NoUpload
    /\ UNCHANGED <<pc, relCached>>

\* upload_file, lines 310-320: the size decides between one POST and streaming.
UploadFile ==
    /\ UNCHANGED <<attrVars, walkVars, fnVars>>
    /\ pc = "idle"
    /\ \E name \in Filenames : filename' = name
    /\ \E size \in 1..MaxSize : file_size' = size
    /\ pc' = "create"
    /\ net' = <<>>
    /\ ncall' = 0
    /\ first_chunk' = TRUE
    /\ offset' = 0
    /\ fpos' = 0
    /\ fopen' = FALSE
    /\ checkOut' = 2
    /\ chunkFailed' = FALSE
    /\ reported' = FALSE
    /\ result' = "none"
    /\ UNCHANGED <<now, expire, hdr, relCached>>

\* upload_file, lines 322-333: the create POST inside try / bare except.
Create ==
    /\ UNCHANGED <<attrVars, walkVars, fnVars>>
    /\ pc = "create"
    /\ UNCHANGED filename
    /\ \E timeout \in Timeouts, renewOk \in BOOLEAN, postOk \in BOOLEAN,
          cot \in CheckOutTypes :
         LET body == IF Streams(file_size, chunk_size) THEN 0 ELSE file_size
             r == HttpPost(expire, hdr, now, ncall + 1, "add", 0, body,
                           timeout, renewOk, postOk)
         IN  /\ net' = net \o r.sent
             /\ expire' = r.expire
             /\ hdr' = r.hdr
             /\ pc' = AfterCreate(r.raised, Streams(file_size, chunk_size))
             /\ IF r.raised
                THEN /\ result' = "returned"
                     /\ UNCHANGED checkOut
                ELSE /\ checkOut' = cot
                     /\ UNCHANGED result
    /\ ncall' = ncall + 1
    /\ UNCHANGED <<now, file_size, first_chunk, offset, fpos, fopen,
                   relCached, chunkFailed, reported>>

\* _stream_upload, lines 353-363: open the file, resolve the folder's
\* ServerRelativeUrl (a GET unless cached), build the file object.
StreamOpen ==
    /\ UNCHANGED <<attrVars, walkVars, fnVars>>
    /\ pc = "open"
    /\ UNCHANGED filename
    /\ fopen' = TRUE
    /\ fpos' = 0
    /\ first_chunk' = TRUE
    /\ offset' = 0
    /\ IF relCached
       THEN /\ pc' = "chunk"
            /\ UNCHANGED <<net, ncall, relCached, result>>
       ELSE \E getOk \in BOOLEAN :
              LET r == HttpGet(expire, hdr, now, ncall + 1,
                               "ServerRelativeUrl", getOk)
              IN  /\ net' = net \o r.sent
                  /\ ncall' = ncall + 1
                  /\ relCached' = ~r.raised
                  /\ pc' = IF r.raised THEN "idle" ELSE "chunk"
                  /\ result' = IF r.raised THEN "raised" ELSE result
    /\ UNCHANGED <<now, expire, hdr, file_size, checkOut, chunkFailed, reported>>

\* Mutant: the break after finishupload is missing.
BreaksNever(op) == FALSE

\* _stream_upload: break after finishupload.
Breaks(op) == op = "finishupload"

\* _stream_upload, lines 364-374: one iteration of the chunk loop.
StreamChunk ==
    /\ UNCHANGED <<attrVars, walkVars, fnVars>>
    /\ pc = "chunk"
    /\ UNCHANGED filename
    /\ \E readOk \in BOOLEAN, timeout \in Timeouts, renewOk \in BOOLEAN,
          postOk \in BOOLEAN :
         IF ~readOk
         THEN /\ chunkFailed' = TRUE
              /\ pc' = "except"
              /\ UNCHANGED <<expire, hdr, net, ncall, first_chunk, offset, fpos>>
         ELSE LET len == ReadLen(file_size, fpos, chunk_size)
                  op == ChunkOp(first_chunk, offset, file_size, chunk_size)
                  r == HttpPost(expire, hdr, now, ncall + 1, op, offset, len,
                                timeout, renewOk, postOk)
              IN  /\ fpos' = fpos + len
                  /\ net' = net \o r.sent
                  /\ ncall' = ncall + 1
                  /\ expire' = r.expire
                  /\ hdr' = r.hdr
                  /\ IF r.raised
                     THEN /\ chunkFailed' = TRUE
                          /\ pc' = "except"
                          /\ UNCHANGED <<first_chunk, offset>>
                     ELSE /\ UNCHANGED chunkFailed
                          /\ IF Breaks(op)
                             THEN /\ pc' = "report"
                                  /\ UNCHANGED <<first_chunk, offset>>
                             ELSE /\ pc' = "chunk"
                                  /\ first_chunk' = FALSE
                                  /\ offset' = NextOffset(offset, len)
    /\ UNCHANGED <<now, file_size, fopen, relCached, checkOut, reported, result>>

\* _stream_upload, lines 375-378: the bare except closes f and posts
\* cancelupload; nothing is raised again.
StreamCancel ==
    /\ UNCHANGED <<attrVars, walkVars, fnVars>>
    /\ pc = "except"
    /\ UNCHANGED filename
    /\ fopen' = FALSE
    /\ \E timeout \in Timeouts, renewOk \in BOOLEAN, postOk \in BOOLEAN :
         LET r == HttpPost(expire, hdr, now, ncall + 1, "cancelupload", 0, 0,
                           timeout, renewOk, postOk)
         IN  /\ net' = net \o r.sent
             /\ expire' = r.expire
             /\ hdr' = r.hdr
             /\ pc' = IF r.raised THEN "idle" ELSE "report"
             /\ result' = IF r.raised THEN "raised" ELSE result
    /\ ncall' = ncall + 1
    /\ UNCHANGED <<now, file_size, first_chunk, offset, fpos, relCached,
                   checkOut, chunkFailed, reported>>

\* upload_file, lines 338-339: print "Uploaded ..." (its argument reads the
\* folder's ServerRelativeUrl), then test the file's CheckOutType.
Report ==
    /\ UNCHANGED <<attrVars, walkVars, fnVars>>
    /\ pc = "report"
    /\ UNCHANGED filename
    /\ IF relCached
       THEN /\ reported' = TRUE
            /\ pc' = IF checkOut # 2 THEN "checkin" ELSE "idle"
            /\ result' = IF checkOut # 2 THEN result ELSE "returned"
            /\ UNCHANGED <<net, ncall, relCached>>
       ELSE \E getOk \in BOOLEAN :
              LET r == HttpGet(expire, hdr, now, ncall + 1,
                               "ServerRelativeUrl", getOk)
              IN  /\ net' = net \o r.sent
                  /\ ncall' = ncall + 1
                  /\ relCached' = ~r.raised
                  /\ reported' = ~r.raised
                  /\ pc' = IF ~r.raised /\ checkOut # 2 THEN "checkin" ELSE "idle"
                  /\ result' = IF r.raised THEN "raised"
                               ELSE IF checkOut # 2 THEN result ELSE "returned"
    /\ UNCHANGED <<now, expire, hdr, file_size, first_chunk, offset, fpos,
                   fopen, checkOut, chunkFailed>>

\* upload_file, lines 340-341: file._method_post('CheckIn', ...).send()
CheckIn ==
    /\ UNCHANGED <<attrVars, walkVars, fnVars>>
    /\ pc = "checkin"
    /\ UNCHANGED filename
    /\ \E timeout \in Timeouts, renewOk \in BOOLEAN, postOk \in BOOLEAN :
         LET r == HttpPost(expire, hdr, now, ncall + 1, "CheckIn", 0, 0,
                           timeout, renewOk, postOk)
         IN  /\ net' = net \o r.sent
             /\ expire' = r.expire
             /\ hdr' = r.hdr
             /\ result' = IF r.raised THEN "raised" ELSE "returned"
    /\ pc' = "idle"
    /\ ncall' = ncall + 1
    /\ UNCHANGED <<now, file_size, first_chunk, offset, fpos, fopen, relCached,
                   checkOut, chunkFailed, reported>>

Next ==
    \/ Tick \/ Get \/ Post
    \/ UploadFile \/ Create \/ StreamOpen \/ StreamChunk \/ StreamCancel
    \/ Report \/ CheckIn

Spec == Init /\ [][Next]_vars

\* The chunk loop of _stream_upload is a `while True:` that runs on by
\* itself: an enabled iteration is eventually taken.
SpecLive == Init /\ [][Next]_vars /\ WF_vars(StreamChunk)

\* ------------------------------------------------- reading the request log
Idx == 1..Len(net)

\* The renewal requests sent by http() call number c.
Renewals(c) == {i \in Idx : net[i].op = "contextinfo" /\ net[i].call = c}

\* Positions of the chunk calls of the upload session.
ChunkIdx == {i \in Idx : net[i].op \in ChunkOps}

Sent(op) == {i \in Idx : net[i].op = op}

RECURSIVE BytesBefore(_)
\* Bytes carried by the chunk calls sent before position i.
BytesBefore(i) ==
    IF i <= 1 THEN 0
    ELSE BytesBefore(i - 1)
         + (IF net[i - 1].op \in ChunkOps THEN net[i - 1].len ELSE 0)

\* The state of the upload session (spec section 4.6) as the locals of
\* _stream_upload and the requests sent determine it.
SessionState ==
    IF Sent("cancelupload") # {} THEN "Cancelled"
    ELSE IF \E i \in Sent("finishupload") : net[i].ok THEN "Finished"
    ELSE IF first_chunk THEN "Idle"
    ELSE IF \E i \in Sent("continueupload") : net[i].ok THEN "Continuing"
    ELSE "Started"

\* No request of the current call failed and no read raised.
NoFailure == ~chunkFailed /\ \A i \in Idx : net[i].ok

\* _stream_upload has returned to upload_file.
StreamReturned ==
    pc \in {"report", "checkin"} \/ (pc = "idle" /\ result = "returned")

\* ------------------------------------------------------------------ C2
\* C2: a post() made when now >= expire sends exactly one renewal request,
\* before its POST; a post() made when now < expire sends none.
C2_RenewalTiming ==
    \A i \in Idx :
        /\ net[i].op = "contextinfo" =>
              /\ net[i].due
              /\ Cardinality(Renewals(net[i].call)) = 1
        /\ net[i].viaPost =>
              IF net[i].due
              THEN /\ Cardinality(Renewals(net[i].call)) = 1
                   /\ \A j \in Renewals(net[i].call) : j < i
              ELSE Renewals(net[i].call) = {}

\* One upload in which one post() renewed the token and a later one did not.
C2_Witness ==
    \E i, j \in Idx :
        /\ i < j
        /\ net[i].viaPost /\ net[i].due /\ Renewals(net[i].call) # {}
        /\ net[j].viaPost /\ ~net[j].due

\* ------------------------------------------------------------------ C3
\* C3: every POST sent by post() goes out while the session header holds a
\* token whose recorded expiry is strictly later than the current time.
C3_PostsCarryFreshToken ==
    \A i \in Idx : net[i].viaPost => net[i].fresh

\* A continueupload in the middle of an upload whose token had run out and
\* was renewed by that very call.
C3_Witness ==
    \E i \in Idx :
        /\ net[i].viaPost /\ net[i].op = "continueupload"
        /\ net[i].due /\ net[i].fresh

\* ------------------------------------------------------------------ C4
\* C4: for a file larger than the chunk size, when no call fails, the chunk
\* calls are one startupload, then continueupload calls, then exactly one
\* finishupload carrying the last bytes, and nothing after it; a file of
\* 2*chunk_size+1 bytes gives start, continue, finish with a 1-byte finish.
C4_ChunkSequence ==
    (Streams(file_size, chunk_size) /\ NoFailure) =>
        /\ \A i \in ChunkIdx :
              /\ (net[i].op = "startupload") <=> (\A j \in ChunkIdx : i <= j)
              /\ (net[i].op = "finishupload") =>
                    /\ \A j \in ChunkIdx : j <= i
                    /\ net[i].off + net[i].len = file_size
        /\ Sent("cancelupload") = {}
        /\ Cardinality(Sent("finishupload")) <= 1
        /\ StreamReturned =>
              /\ Cardinality(Sent("startupload")) = 1
              /\ Cardinality(Sent("finishupload")) = 1
        /\ (StreamReturned /\ file_size = 2 * chunk_size + 1) =>
              /\ Cardinality(Sent("continueupload")) = 1
              /\ \A i \in Sent("finishupload") : net[i].len = 1

\* A finished upload of 2*chunk_size+1 bytes without any failure.
C4_Witness ==
    /\ file_size = 2 * chunk_size + 1
    /\ NoFailure
    /\ StreamReturned
    /\ Sent("finishupload") # {}

\* ------------------------------------------------------------------ C5
\* C5: for a file of k*chunk_size bytes, k >= 2, no continueupload or
\* finishupload carries zero bytes, the finishupload carries the last full
\* chunk and exactly k-2 continueupload calls precede it.
C5_ExactMultiple ==
    (Streams(file_size, chunk_size) /\ file_size % chunk_size = 0) =>
        /\ \A i \in Sent("continueupload") \cup Sent("finishupload") :
              net[i].len > 0
        /\ \A i \in Sent("finishupload") :
              /\ net[i].len = chunk_size
              /\ net[i].off + net[i].len = file_size
              /\ Cardinality(Sent("continueupload"))
                    = (file_size \div chunk_size) - 2

\* A finished upload of exactly 3 chunks: start, one continue, finish.
C5_Witness ==
    /\ file_size = 3 * chunk_size
    /\ \E i \in Sent("finishupload") : net[i].ok
    /\ Cardinality(Sent("continueupload")) = 1

\* ------------------------------------------------------------------ C6
\* C6: the fileOffset values of successive continueupload/finishupload calls
\* strictly increase, and each equals the number of bytes carried by all
\* earlier chunk calls of the session.
C6_OffsetsAdvance ==
    \A i \in Sent("continueupload") \cup Sent("finishupload") :
        /\ net[i].off = BytesBefore(i)
        /\ \A j \in Sent("continueupload") \cup Sent("finishupload") :
              j < i => net[j].off < net[i].off

\* A session with a continueupload and then a finishupload.
C6_Witness ==
    \E i \in Sent("continueupload"), j \in Sent("finishupload") :
        i < j /\ net[i].off > 0 /\ net[j].off > net[i].off

\* ------------------------------------------------------------------ C7
\* C7: after an exception while reading or transmitting a chunk, cancelupload
\* is sent and the failure is raised to the caller of upload_file: upload_file
\* does not go on, does not report the upload and does not return normally.
C7_FailureSurfaced ==
    chunkFailed =>
        /\ pc # "except" => Sent("cancelupload") # {}
        /\ pc \notin {"report", "checkin"}
        /\ ~reported
        /\ result # "returned"

\* ------------------------------------------------------------------ C8
\* C8: when the upload session is Finished or Cancelled, its file handle has
\* been closed.
C8_HandleClosedAtTerminal ==
    SessionState \in {"Finished", "Cancelled"} => ~fopen

\* ------------------------------------------------------------------ C9
\* C9: cancelupload is sent only for a session whose startupload completed
\* successfully.
C9_CancelOnlyAfterStart ==
    \A i \in Sent("cancelupload") :
        \E j \in Sent("startupload") : j < i /\ net[j].ok

\* ------------------------------------------------------------------ C1
\* C1 as stated: for every name at most one GET has ever been sent, and a
\* name present in the mapping is served from it without a GET.
C1_AtMostOneGet ==
    /\ \A n \in Names : gets[n] <= 1
    /\ last.hit => (~last.fetched /\ last.ret = last.before)

\* C1 as amended: for every name at most one GET answered with success has
\* been sent, and that GET stored the name, whatever it resolved to; a GET is
\* sent only while the name is absent; once the name is present,
\* attribute(name) returns the stored value without a GET and leaves it as
\* it was.
C1_SingleResolution ==
    /\ \A n \in Names :
          /\ okGets[n] <= 1
          /\ okGets[n] = 1 => n \in DOMAIN attrs
    /\ last.fetched => ~last.hit
    /\ last.hit =>
          /\ ~last.fetched
          /\ ~last.raised
          /\ last.ret = last.before
          /\ attrs[last.name] = last.before

\* A name that resolved to None after a failed first GET is read again from
\* the mapping.
C1_Witness ==
    /\ last.hit
    /\ last.before = None
    /\ gets[last.name] = 2
    /\ okGets[last.name] = 1

\* ------------------------------------------------------------------ C10
RECURSIVE Within(_, _, _)
\* Folder m lies at most k levels below folder start.
Within(m, start, k) ==
    IF m = start THEN TRUE
    ELSE IF m = 0 \/ k = 0 THEN FALSE
    ELSE Within(parent[m], start, k - 1)

\* The folders whose triples a list of yields holds.
Tops(out) == {out[i].top : i \in 1..Len(out)}

Subtree(start) == {m \in Nodes : Within(m, start, nnodes)}

\* C11: walk(maxdepth=-1) is unbounded like walk(maxdepth=None): it yields a
\* triple for every folder of the subtree of the start folder.
C11_MinusOneUnbounded ==
    (walked.done /\ walked.maxdepth = -1) =>
        Tops(walked.out) = Subtree(walked.start)

\* ------------------------------------------------------------------ C12
\* C12: in an unbounded walk every folder of the subtree is yielded, and the
\* triple of a folder comes before the triples of all its descendants when
\* topdown is true, after all of them when topdown is false.
C12_WalkOrder ==
    (walked.done /\ walked.maxdepth = NoneDepth) =>
        /\ Tops(walked.out) = Subtree(walked.start)
        /\ \A i, j \in 1..Len(walked.out) :
              (/\ walked.out[j].top # walked.out[i].top
               /\ walked.out[j].top \in Subtree(walked.out[i].top)) =>
                  IF walked.topdown THEN i < j ELSE j < i

\* A bottom-up unbounded walk of a folder with two child folders, one of
\* which has a child of its own: root -> {1 -> 3, 2}.
C12_Witness ==
    /\ walked.done
    /\ walked.maxdepth = NoneDepth
    /\ ~walked.topdown
    /\ walked.start = 0
    /\ nnodes = 4
    /\ parent[1] = 0 /\ parent[2] = 0 /\ parent[3] = 1
    /\ Len(walked.out) = 4
    /\ walked.out[1].top = 3
    /\ walked.out[4].top = 0

\* ------------------------------------------------------------------ C13
\* C13: the dispatcher yields a Folder for the tag that normalizes to the
\* Folder variant's name, a File for the File variant's, and a generic
\* node for every other tag: never another kind of object, never an error.
C13_DispatchTotal ==
    sp_object # "pending" =>
        sp_object = (IF StripDots(type_tag) = <<"SP", "Folder">> THEN "SPFolder"
                     ELSE IF StripDots(type_tag) = <<"SP", "File">> THEN "SPFile"
                     ELSE "SPObject")

\* ------------------------------------------------------------------ C14
\* C14: on a LazyAttribute created without a value, any number (>= 1) of
\* value() calls sends exactly one GET in total, whatever the GET returned
\* (the GETs considered here were all answered with success).
C14_ExactlyOneFetch ==
    (~lazy_given /\ lazy_calls >= 1 /\ ~lazy_failed) => lazy_gets = 1

\* ------------------------------------------------------------------ C15
\* C15: upload_file routes by size.  A file of at most chunk_size bytes is
\* sent by one create POST carrying the whole content and by no chunk
\* call; a larger file gets a create POST with no content, and chunk calls
\* are sent only after that create POST succeeded.
C15_RoutesBySize ==
    file_size > 0 =>
        /\ Cardinality(Sent("add")) <= 1
        /\ pc \in {"open", "chunk", "except", "report", "checkin"} =>
              \E i \in Sent("add") : net[i].ok
        /\ IF file_size <= chunk_size
           THEN /\ ChunkIdx = {}
                /\ Sent("cancelupload") = {}
                /\ \A i \in Sent("add") : net[i].len = file_size
           ELSE /\ \A i \in Sent("add") : net[i].len = 0
                /\ \A j \in ChunkIdx :
                      \E i \in Sent("add") : i < j /\ net[i].ok

\* A file of exactly chunk_size bytes was created with its whole content.
C15_Witness ==
    /\ file_size = chunk_size
    /\ pc = "report"
    /\ \E i \in Sent("add") : net[i].ok /\ net[i].len = chunk_size

\* ------------------------------------------------------------------ C16
\* C16: when the create POST of upload_file fails (or the renewal before
\* it does), upload_file returns normally and nothing else is sent: no
\* chunk call, no cancel, no check-in.
C16_CreateFailureAborts ==
    (file_size > 0 /\ \E i \in Idx : net[i].call = 1 /\ ~net[i].ok) =>
        /\ pc = "idle"
        /\ result = "returned"
        /\ ~reported
        /\ \A j \in Idx : net[j].call = 1 /\ net[j].op \in {"contextinfo", "add"}

\* The create POST of a streamed upload was answered with an error status.
C16_Witness ==
    /\ file_size > chunk_size
    /\ pc = "idle"
    /\ result = "returned"
    /\ Len(net) = 2
    /\ net[2].op = "add"
    /\ ~net[2].ok

\* ------------------------------------------------------------------ C18
\* The step sent a renewal request that was answered with an error status.
RenewalFailedStep ==
    /\ net' # net
    /\ Len(net') >= 1
    /\ net'[Len(net')].op = "contextinfo"
    /\ ~net'[Len(net')].ok

\* C18: a failed renewal is raised out of post(), the POST it was made for
\* is not sent, the renewal is not retried, header and expiry keep their
\* values, and so the next post() finds the token due again.
C18_RenewalFailure ==
    [][RenewalFailedStep =>
          /\ expire' = expire
          /\ hdr' = hdr
          /\ DigestExpired(expire', now')
          /\ Cardinality({i \in 1..Len(net') :
                             net'[i].call = net'[Len(net')].call}) = 1
          /\ pc' \in {"idle", "except"}
          /\ pc = "idle" => result' = "raised"]_vars

\* A post() whose renewal failed while the session held an earlier token.
C18_Witness ==
    /\ file_size = 0
    /\ Len(net) = 1
    /\ net[1].op = "contextinfo"
    /\ ~net[1].ok
    /\ result = "raised"
    /\ hdr # NoToken

\* ------------------------------------------------------------------ C17
\* C17: whatever local filename is given, the start, continue, finish and
\* cancel calls go to the file the create POST created: the folder's path
\* followed by the base name of the file.
C17_ChunksTargetCreatedFile ==
    (ChunkIdx \cup Sent("cancelupload")) # {} =>
        StreamPath(filename) = CreatedPath(filename)

\* ------------------------------------------------------------------ C19
\* C19: a string argument renders as a quote, the string with every
\* apostrophe replaced by %27%27, and a quote; a UUID renders as guid'...'
\* around its canonical form; every other argument renders as its natural
\* string form, without quotes.
C19_Rendering ==
    rendered # Pending =>
        /\ rendered.raised = ""
        /\ obj.type = "str" =>
              /\ Len(rendered.text) >= 2
              /\ Head(rendered.text) = "'"
              /\ rendered.text[Len(rendered.text)] = "'"
              /\ SubSeq(rendered.text, 2, Len(rendered.text) - 1)
                    = Replace(obj.chars)
        /\ obj.type = "UUID" =>
              rendered.text = <<"g", "u", "i", "d", "'">> \o Str(obj) \o <<"'">>
        /\ obj.type \notin {"str", "UUID", "bytes"} =>
              rendered.text = Str(obj)
        /\ obj.type \notin {"str", "UUID"} =>
              \A i \in 1..Len(rendered.text) : rendered.text[i] # "'"

\* ------------------------------------------------------------------ C20
\* The fields of the envelope that are not objects.
Plain == {n \in Names : envelope.fields[n] \in StoredKinds}

\* What holds in every state: the plain fields are in the mapping with the
\* envelope's values and no GET was ever sent for them; any other name is
\* in the mapping only after a GET for it succeeded (so the mapping of a
\* new node holds exactly the plain fields, and that of a bare node is
\* empty); a GET for a name goes to <node-uri>/<name>.
C20_State ==
    /\ \A n \in Plain :
          /\ n \in DOMAIN attrs
          /\ attrs[n] = FieldValue(envelope.fields[n])
          /\ gets[n] = 0
    /\ \A n \in Names \ Plain : n \in DOMAIN attrs => okGets[n] >= 1
    /\ ~envelope.given => Plain = {}
    /\ last.name \in Plain =>
          ~last.fetched /\ last.ret = FieldValue(envelope.fields[last.name])
    /\ last.fetched => last.url = <<NodeUri, "/", last.name>>

\* What holds of every attribute(name) call: reading a plain field sends
\* nothing; the first read of any other name sends exactly one GET.
C20_Step ==
    \A n \in Names :
        (last' # last /\ last'.name = n) =>
            IF n \in Plain THEN gets' = gets
            ELSE gets[n] = 0 =>
                    /\ gets' = [gets EXCEPT ![n] = 1]
                    /\ last'.fetched

\* C20: a node made from an envelope starts with exactly the envelope's
\* non-object fields in its mapping (a bare node with none); attribute(name)
\* on such a field sends nothing, and the first attribute(name) on a
\* deferred or absent name sends exactly one GET, to <node-uri>/<name>.
C20_Prepopulated == []C20_State /\ [][C20_Step]_vars

\* A node whose envelope held Title = 0 and a deferred Folders: Folders was
\* fetched once, then Title was read from the mapping.
C20_Witness ==
    /\ envelope.given
    /\ envelope.fields["Title"] = "zero"
    /\ envelope.fields["Folders"] = "deferred"
    /\ gets["Folders"] = 1
    /\ gets["Title"] = 0
    /\ last.name = "Title"
    /\ last.hit

\* ------------------------------------------------------------------ C21
\* The content of the file has reached the server before request i: the
\* create POST carried it, or the session's finishupload call succeeded.
Transferred(i) ==
    IF file_size <= chunk_size
    THEN \E j \in Sent("add") : j < i /\ net[j].ok /\ net[j].len = file_size
    ELSE \E j \in Sent("finishupload") : j < i /\ net[j].ok

\* C21: after a successful create POST, upload_file sends CheckIn at most
\* once, only when the file's CheckOutType is not 2, and only after the
\* whole content of the file has been transferred.
C21_CheckInAfterTransfer ==
    /\ Cardinality(Sent("CheckIn")) <= 1
    /\ \A i \in Sent("CheckIn") :
          /\ checkOut # 2
          /\ \E j \in Sent("add") : j < i /\ net[j].ok
          /\ Transferred(i)

\* ------------------------------------------------------------------ C22
\* Number of chunks of a file of file_size bytes.
NChunks == (file_size + chunk_size - 1) \div chunk_size

\* While a session runs no more than NChunks chunk calls are sent; once its
\* finishupload call has succeeded the chunk calls are NChunks many, they
\* carry file_size bytes in all, read from the file front to back, each
\* one but the last chunk_size bytes and the last 1..chunk_size bytes.
C22_State ==
    /\ Cardinality(ChunkIdx) <= NChunks
    /\ SessionState = "Finished" =>
          /\ Cardinality(ChunkIdx) = NChunks
          /\ fpos = file_size
          /\ \A i \in ChunkIdx :
                /\ net[i].ok
                /\ net[i].off = BytesBefore(i)
                /\ IF net[i].op = "finishupload"
                   THEN /\ net[i].len \in 1..chunk_size
                        /\ BytesBefore(i) + net[i].len = file_size
                   ELSE net[i].len = chunk_size

\* C22: for a file larger than chunk_size the chunk loop of the upload
\* session ends, and the chunks sent by a successful session are the bytes
\* of the file, each once and in order: all chunks have chunk_size bytes
\* except the last, which has 1..chunk_size.
C22_ChunksCoverFile == []C22_State /\ (pc = "chunk" ~> pc # "chunk")

\* A file of two full chunks and one byte was sent by start, continue, finish.
C22_Witness ==
    /\ SessionState = "Finished"
    /\ file_size = 2 * chunk_size + 1
    /\ Sent("continueupload") # {}
    /\ \E i \in Sent("finishupload") : net[i].len = 1

\* ------------------------------------------------------------------ C23
\* C23: with two clients on one session, every POST sent by post() on
\* either client goes out while the session header holds a token that is
\* unexpired at that moment.
C23_SharedTokenUnexpired ==
    shared_last.sent =>
        /\ shared_last.token # NoToken
        /\ shared_last.token > shared_last.at

\* ------------------------------------------------------------------ C24
\* The attributes walk reads on the folders in S that their objects do not
\* hold yet.
ToFetch(S) ==
    Cardinality({p \in S \X {"Folders", "Files"} : p[2] \notin DOMAIN fattrs[p[1]]})

\* After an unbounded walk: one triple for each folder of the subtree, each
\* with the server's child folders and files, and every folder of the
\* subtree holds its Folders and Files.
C24_State ==
    (walked.done /\ walked.maxdepth = NoneDepth) =>
        /\ Len(walked.out) = Cardinality(Subtree(walked.start))
        /\ Tops(walked.out) = Subtree(walked.start)
        /\ \A i \in 1..Len(walked.out) :
              /\ walked.out[i].folders = Children(walked.out[i].top)
              /\ walked.out[i].files = FilesOf(walked.out[i].top)
        /\ ToFetch(Subtree(walked.start)) = 0

\* An unbounded walk sends one GET for each attribute not yet held, so two
\* per folder on new objects; one that follows an unbounded walk from the
\* same folder sends none and, with the same topdown, yields the same.
C24_Step ==
    ((walked' # walked \/ fattrs' # fattrs) /\ walked'.maxdepth = NoneDepth) =>
        /\ walked'.nget = ToFetch(Subtree(walked'.start))
        /\ (\A n \in Subtree(walked'.start) : fattrs[n] = <<>>) =>
              walked'.nget = 2 * Cardinality(Subtree(walked'.start))
        /\ (/\ walked.done
            /\ walked.maxdepth = NoneDepth
            /\ walked.start = walked'.start) =>
              /\ walked'.nget = 0
              /\ walked.topdown = walked'.topdown => walked'.out = walked.out

\* C24: an unbounded walk of a finite tree ends, yields the triple of every
\* folder of the subtree exactly once and fetches Folders and Files once
\* per folder; a second walk from the same folder object yields the same
\* triples and fetches nothing.
C24_WalkOnceThenCached == []C24_State /\ [][C24_Step]_vars

\* A walk of a four-folder tree from its root that found everything held.
C24_Witness ==
    /\ walked.done
    /\ walked.maxdepth = NoneDepth
    /\ walked.start = 0
    /\ nnodes = 4
    /\ Len(walked.out) = 4
    /\ walked.nget = 0
====
